---------------------------- MODULE Spec2Model ----------------------------
(***************************************************************************)
(* A model of app.py (evolucao-leis-streamlit): the HTTP wrapper safe_get, *)
(* the bill collector buscar_pls_periodo with its time-bounded cache, the  *)
(* party aggregator contagem_por_partido and the dashboard driver.         *)
(*                                                                         *)
(* The program is sequential.  Each function is a small state machine; the *)
(* remote API, the HTTP session, the clock and the user are the            *)
(* environment and choose their answers nondeterministically.              *)
(*                                                                         *)
(*   SpecFetch    one call of safe_get after another, statement by         *)
(*                statement, against every answer of the session           *)
(*   SpecCollect  one call of buscar_pls_periodo, page by page             *)
(*   SpecCollectFair  the same call, scheduled until it returns            *)
(*   SpecAgg      one call of contagem_por_partido: on a few bills against *)
(*                every answer of the authors and deputies endpoints, and  *)
(*                on bill lists around and past the sample limit           *)
(*   Spec         the dashboard driver: reruns of the script, the clock    *)
(*                and the caches of the three memoised functions           *)
(*   SpecOutage   the driver against an endpoint that fails during the     *)
(*                first run and may have recovered by the next             *)
(***************************************************************************)
EXTENDS Integers, Sequences, FiniteSets

(***************************************************************************)
(* Bounds of the model.                                                    *)
(***************************************************************************)
\* years the user may query: FirstYear .. FirstYear + NumYears - 1
NumYears == 2
\* the API stops offering a "next" link with records at this page number
MaxPage == 3
\* most records on one page (the program asks for 100)
MaxItems == 1
\* script runs of the dashboard driver
MaxRuns == 2
\* bills of the short inputs of contagem_por_partido
MaxBills == 2
\* bills past SampleLimit in its longest input
ExtraIds == 200

(***************************************************************************)
(* Constants of the program.                                               *)
(***************************************************************************)
\* st.number_input("Ano inicial", min_value=1991, ...)
FirstYear == 1991
\* @st.cache_data(ttl=3600)
TTL == 3600
\* ids = ids[:800]
SampleLimit == 800
\* if i % 25 == 0: time.sleep(0.4)
PauseEvery == 25
\* resp.headers.get("Retry-After", "2")
DefaultRetryAfter == 2
\* resp.status_code == 429
TooManyRequests == 429
\* Response.raise_for_status raises for 400 <= status < 600
ErrorStatusFrom == 400

Years == FirstYear .. (FirstYear + NumYears - 1)

(***************************************************************************)
(* Python values.                                                          *)
(***************************************************************************)
\* None, as a record so that it compares with JSON objects
None == [none |-> TRUE]
\* the JSON object {}
EmptyObj == [k \in {} |-> TRUE]

\* s[-1]
Last(s) == s[Len(s)]

\* dict.get(key, default) on a JSON object
Get(js, key, default) == IF key \in DOMAIN js THEN js[key] ELSE default

\* Python truth of a value that is None or a JSON object: "if not js"
Truthy(js) == IF js = None THEN FALSE ELSE DOMAIN js # {}

\* strings are sequences of characters
UpperLetters ==
  <<"A", "B", "C", "D", "E", "F", "G", "H", "I", "J", "K", "L", "M",
    "N", "O", "P", "Q", "R", "S", "T", "U", "V", "W", "X", "Y", "Z">>
LowerLetters ==
  <<"a", "b", "c", "d", "e", "f", "g", "h", "i", "j", "k", "l", "m",
    "n", "o", "p", "q", "r", "s", "t", "u", "v", "w", "x", "y", "z">>

IndexIn(letters, c) ==
  IF \E i \in 1 .. Len(letters) : letters[i] = c
  THEN CHOOSE i \in 1 .. Len(letters) : letters[i] = c
  ELSE 0

\* str.lower() and str.upper()
Lower(str) ==
  [i \in 1 .. Len(str) |->
     IF IndexIn(UpperLetters, str[i]) > 0
     THEN LowerLetters[IndexIn(UpperLetters, str[i])] ELSE str[i]]
Upper(str) ==
  [i \in 1 .. Len(str) |->
     IF IndexIn(LowerLetters, str[i]) > 0
     THEN UpperLetters[IndexIn(LowerLetters, str[i])] ELSE str[i]]

\* str.startswith(prefix)
StartsWith(str, prefix) ==
  /\ Len(prefix) <= Len(str)
  /\ \A i \in 1 .. Len(prefix) : str[i] = prefix[i]

Digits == {"0", "1", "2", "3", "4", "5", "6", "7", "8", "9"}

DigitVal(c) ==
  CASE c = "0" -> 0 [] c = "1" -> 1 [] c = "2" -> 2 [] c = "3" -> 3
    [] c = "4" -> 4 [] c = "5" -> 5 [] c = "6" -> 6 [] c = "7" -> 7
    [] c = "8" -> 8 [] c = "9" -> 9

RECURSIVE DigitsVal(_)
\* the number a non-empty sequence of digits writes
DigitsVal(s) ==
  IF Len(s) = 0 THEN 0
  ELSE 10 * DigitsVal(SubSeq(s, 1, Len(s) - 1)) + DigitVal(s[Len(s)])

AllDigits(s) == Len(s) > 0 /\ \A i \in 1 .. Len(s) : s[i] \in Digits

\* int(s) on a string, given as its sequence of characters: an optional sign
\* and digits; anything else raises ValueError (ok = FALSE)
PyInt(s) ==
  IF AllDigits(s) THEN [ok |-> TRUE, val |-> DigitsVal(s)]
  ELSE IF Len(s) > 1 /\ s[1] = "-" /\ AllDigits(Tail(s))
       THEN [ok |-> TRUE, val |-> 0 - DigitsVal(Tail(s))]
  ELSE IF Len(s) > 1 /\ s[1] = "+" /\ AllDigits(Tail(s))
       THEN [ok |-> TRUE, val |-> DigitsVal(Tail(s))]
  ELSE [ok |-> FALSE, val |-> 0]

(***************************************************************************)
(* The HTTP session (requests.Session with urllib3's Retry mounted).       *)
(* SESSION.get either returns a response, whatever its status (the adapter *)
(* has raise_on_status=False, so a 429 or 5xx that outlives the automatic  *)
(* retries comes back as a response), or raises a network-level exception. *)
(***************************************************************************)
\* the Retry-After header of a response: absent, or a string
NoHeader == [present |-> FALSE, value |-> <<>>]
Header(s) == [present |-> TRUE, value |-> s]

RetryAfterHeaders ==
  { NoHeader, Header(<<"3">>), Header(<<"0">>), Header(<<"1", "0">>),
    Header(<<"-", "1">>), Header(<<"W", "e", "d">>) }

\* a body that does not decode as JSON
Garbage == [decodable |-> FALSE, json |-> None]
JsonBody(js) == [decodable |-> TRUE, json |-> js]

Response(st, h, b) ==
  [raises |-> "none", status |-> st, retryAfter |-> h, body |-> b]
Raises(e) ==
  [raises |-> e, status |-> 0, retryAfter |-> NoHeader, body |-> Garbage]

\* a page of the listing endpoint that safe_get's harness hands out
SomeObj == [dados |-> <<>>, links |-> <<"self">>]

\* the exceptions SESSION.get raises: requests' ConnectionError (also once
\* the automatic retries are spent) and Timeout; never requests' HTTPError,
\* which only Response.raise_for_status raises
SessionExceptions == {"ConnectionError", "Timeout"}

\* every answer of SESSION.get in SpecFetch.  Only the header of a 429 and
\* the body of a success are read by safe_get, so only those vary.
SessionOutcomes ==
  { Response(200, NoHeader, b) : b \in {Garbage, JsonBody(SomeObj), JsonBody(EmptyObj)} }
    \cup { Response(st, NoHeader, Garbage) : st \in {404, 500, 503} }
    \cup { Response(TooManyRequests, h, Garbage) : h \in RetryAfterHeaders }
    \cup { Raises(e) : e \in SessionExceptions }

VARIABLES
  \* ---- safe_get ----
  spc,     \* the statement safe_get is at
  resp,    \* its local variable resp (Unbound before the first assignment)
  wait,    \* its local variable wait
  exc,     \* the exception in flight, "none" when there is none
  trace,   \* what this call did so far: requests, sleeps, warnings
  ret,     \* what the call returned
  \* ---- the remote API ----
  dateShape,  \* how the API writes dataApresentacao (fixed per behaviour)
  apiPages,   \* the pages the listing has per year, at most (fixed)
  apiItems,   \* the records a page carries, at most (fixed)
  \* ---- buscar_pls_periodo ----
  ano_ini,    \* its arguments
  ano_fim,
  cpc,        \* the statement it is at
  ano,        \* the loop variable of "for ano in range(...)"
  pagina,     \* the page number to request next
  todos,      \* the records collected so far
  reqLog,     \* the page fetches and pauses of the year being paged
  yearsDone,  \* one summary per year whose paging has ended
  df,         \* the returned DataFrame (NoDf until the call returns)
  \* ---- the authors and deputies endpoints (fixed per behaviour) ----
  apiAutores,   \* what /proposicoes/{id}/autores answers, by bill
  apiPartido,   \* what /deputados/{id} answers, by legislator
  \* ---- the st.cache_data caches of the three resolvers and the clock ----
  clock,
  cacheAut,     \* of autores_por_proposicao
  cachePart,    \* of partido_do_deputado
  cacheCont,    \* of contagem_por_partido
  \* ---- contagem_por_partido ----
  df_pl,        \* its arguments
  usar_todos,
  apc,          \* the statement it is at
  ids,          \* the identifiers to process
  idx,          \* passes of the for loop completed
  partidos,     \* the tally list
  processed,    \* the bills whose authors were asked for, in order
  pausesAt,     \* at each pause, how many bills had been processed
  netLog,       \* the fetches this call issued
  cont,         \* the returned table (NoRet until the call returns)
  \* ---- the dashboard driver ----
  dpc,          \* the statement the script is at
  runs,         \* script runs so far
  cachePls,     \* the cache of buscar_pls_periodo
  computed,     \* per arguments, the last computed result and when
  prev,         \* what computed held for the arguments when the run began
  resolved,     \* per resolver and identifier, when it was last fetched
  aggCalled,    \* this run has called contagem_por_partido
  errorShown    \* this run has shown st.error

fetchVars == <<spc, resp, wait, exc, trace, ret>>
listingVars == <<dateShape, apiPages, apiItems>>
collectVars ==
  <<listingVars, ano_ini, ano_fim, cpc, ano, pagina, todos, reqLog, yearsDone, df>>
worldVars == <<apiAutores, apiPartido>>
cacheVars == <<clock, cacheAut, cachePart, cacheCont>>
aggVars ==
  <<df_pl, usar_todos, apc, ids, idx, partidos, processed, pausesAt, netLog, cont>>
driverVars ==
  <<dpc, runs, cachePls, computed, prev, resolved, aggCalled, errorShown>>

Unbound == [bound |-> FALSE, r |-> None]
Bound(r) == [bound |-> TRUE, r |-> r]
NoRet == [returned |-> FALSE, value |-> None]
Ret(v) == [returned |-> TRUE, value |-> v]

GetEvent(o) == [op |-> "get", out |-> o, secs |-> 0]
SleepEvent(n) == [op |-> "sleep", out |-> Raises("none"), secs |-> n]
WarnEvent(kind) == [op |-> "warn", out |-> Raises(kind), secs |-> 0]

FetchIdle ==
  /\ spc = "idle"
  /\ resp = Unbound
  /\ wait = 0
  /\ exc = "none"
  /\ trace = <<>>
  /\ ret = NoRet

\* the except clause that handles an exception raised inside the try block
\* (lines 43 and 46): HTTPError first, then every other Exception
HandlerOfRequestException(e) ==
  IF e \in {"HTTPError", "ConnectionError", "Timeout"} THEN "exceptHTTP"
  ELSE "exceptException"

HandlerMissesValueError(e) ==
  IF e = "HTTPError" THEN "exceptHTTP"
  ELSE IF e = "ValueError" THEN "propagated"
  ELSE "exceptException"

Handler(e) == IF e = "HTTPError" THEN "exceptHTTP" ELSE "exceptException"

\* def safe_get(url, params=None, timeout=30): entering the try block
SafeGetCall ==
  /\ spc \in {"idle", "returned", "propagated"}
  /\ spc' = "get1"
  /\ resp' = Unbound
  /\ wait' = 0
  /\ exc' = "none"
  /\ trace' = <<>>
  /\ ret' = NoRet

\* line 36: resp = SESSION.get(...)
SessionGet1 ==
  /\ spc = "get1"
  /\ \E o \in SessionOutcomes :
       /\ trace' = Append(trace, GetEvent(o))
       /\ IF o.raises = "none"
          THEN /\ resp' = Bound(o)
               /\ spc' = "check429"
               /\ exc' = exc
          ELSE /\ resp' = resp
               /\ spc' = Handler(o.raises)
               /\ exc' = o.raises
  /\ UNCHANGED <<wait, ret>>

\* lines 37-38: if resp.status_code == 429: wait = int(headers.get(...))
Check429 ==
  /\ spc = "check429"
  /\ IF resp.r.status = TooManyRequests
     THEN LET h == resp.r.retryAfter
              n == IF h.present THEN PyInt(h.value)
                   ELSE [ok |-> TRUE, val |-> DefaultRetryAfter]
          IN  IF n.ok
              THEN /\ wait' = n.val
                   /\ spc' = "sleep"
                   /\ exc' = exc
              ELSE /\ wait' = wait
                   /\ spc' = Handler("ValueError")
                   /\ exc' = "ValueError"
     ELSE /\ spc' = "raise_for_status"
          /\ UNCHANGED <<wait, exc>>
  /\ UNCHANGED <<resp, trace, ret>>

\* line 39: time.sleep(wait); a negative length raises ValueError
Sleep ==
  /\ spc = "sleep"
  /\ IF wait >= 0
     THEN /\ trace' = Append(trace, SleepEvent(wait))
          /\ spc' = "get2"
          /\ exc' = exc
     ELSE /\ trace' = trace
          /\ spc' = Handler("ValueError")
          /\ exc' = "ValueError"
  /\ UNCHANGED <<resp, wait, ret>>

\* line 40: resp = SESSION.get(...), the manual retry
SessionGet2 ==
  /\ spc = "get2"
  /\ \E o \in SessionOutcomes :
       /\ trace' = Append(trace, GetEvent(o))
       /\ IF o.raises = "none"
          THEN /\ resp' = Bound(o)
               /\ spc' = "raise_for_status"
               /\ exc' = exc
          ELSE /\ resp' = resp
               /\ spc' = Handler(o.raises)
               /\ exc' = o.raises
  /\ UNCHANGED <<wait, ret>>

\* line 41: resp.raise_for_status()
RaiseForStatus ==
  /\ spc = "raise_for_status"
  /\ IF resp.r.status >= ErrorStatusFrom
     THEN /\ spc' = Handler("HTTPError")
          /\ exc' = "HTTPError"
     ELSE /\ spc' = "json"
          /\ exc' = exc
  /\ UNCHANGED <<resp, wait, trace, ret>>

\* line 42: return resp.json()
ReturnJson ==
  /\ spc = "json"
  /\ IF resp.r.body.decodable
     THEN /\ ret' = Ret(resp.r.body.json)
          /\ spc' = "returned"
          /\ exc' = exc
     ELSE /\ ret' = ret
          /\ spc' = Handler("JSONDecodeError")
          /\ exc' = "JSONDecodeError"
  /\ UNCHANGED <<resp, wait, trace>>

\* lines 43-45: except HTTPError: st.warning(f"... {resp.status_code} ...");
\* return None.  Reading resp while it is unbound raises UnboundLocalError,
\* which leaves safe_get.
ExceptHTTPError ==
  /\ spc = "exceptHTTP"
  /\ IF resp.bound
     THEN /\ trace' = Append(trace, WarnEvent("HTTPError"))
          /\ ret' = Ret(None)
          /\ spc' = "returned"
          /\ exc' = "none"
     ELSE /\ trace' = trace
          /\ ret' = ret
          /\ spc' = "propagated"
          /\ exc' = "UnboundLocalError"
  /\ UNCHANGED <<resp, wait>>

\* lines 46-48: except Exception: st.warning(...); return None
ExceptException ==
  /\ spc = "exceptException"
  /\ trace' = Append(trace, WarnEvent(exc))
  /\ ret' = Ret(None)
  /\ spc' = "returned"
  /\ exc' = "none"
  /\ UNCHANGED <<resp, wait>>

(***************************************************************************)
(* The listing endpoint /proposicoes as buscar_pls_periodo sees it through *)
(* safe_get: None (the fetch failed), or the JSON object of a page.        *)
(***************************************************************************)
\* dataApresentacao as the API writes it: null, or a local date of year y
\* whose instant, converted to UTC, may fall in the next year
NullDate == [null |-> TRUE, y |-> 0, rolls |-> FALSE]
Date(y, rolls) == [null |-> FALSE, y |-> y, rolls |-> rolls]

DateShapes == {"inYear", "offset", "null"}

\* the date the API gives a bill it lists for year y
ApiDate(y, shape) ==
  CASE shape = "inYear" -> Date(y, FALSE)
    [] shape = "offset" -> Date(y, TRUE)
    [] shape = "null" -> NullDate

\* k bills of year y, with identifiers after `from`
ApiBills(k, from, y, shape) ==
  [i \in 1 .. k |-> [id |-> from + i, dataApresentacao |-> ApiDate(y, shape)]]

\* the links of a page: with or without rel "next"
LinkLists == {<<"self", "next", "last">>, <<"self", "first">>}

RecordsIn(js) == Len(Get(js, "dados", <<>>))

\* line 78-79: links = {l["rel"]: ...}; "next" in links
HasNext(js) ==
  LET links == Get(js, "links", <<>>)
  IN  \E i \in 1 .. Len(links) : links[i] = "next"

\* what safe_get may return for page p of year y.  The API offers no page
\* past apiPages: its last page never has both records and a "next" link,
\* and a listing of a single page names no next page at all.
PageAnswers(y, p, from, shape) ==
  {None, EmptyObj}
    \cup { js \in { [dados |-> ApiBills(k, from, y, shape), links |-> l] :
                      k \in 0 .. apiItems, l \in LinkLists } :
             /\ HasNext(js) => apiPages > 1
             /\ p < apiPages \/ ~(HasNext(js) /\ RecordsIn(js) > 0) }

(***************************************************************************)
(* buscar_pls_periodo                                                      *)
(***************************************************************************)
NoDf == [returned |-> FALSE, value |-> None]
RetDf(v) == [returned |-> TRUE, value |-> v]

FetchEvent(y, p, js) == [op |-> "fetch", ano |-> y, pagina |-> p, js |-> js]
PauseEvent(y, p) == [op |-> "sleep", ano |-> y, pagina |-> p, js |-> None]

Fetches(log) == SelectSeq(log, LAMBDA e : e.op = "fetch")
Pauses(log) == SelectSeq(log, LAMBDA e : e.op = "sleep")

\* lines 71-83, the decision at the end of one pass of the while loop: the
\* page to request next, or 0 to break out of the loop
RetryOnFailure(js, p) ==
  IF ~Truthy(js) THEN p
  ELSE IF HasNext(js) /\ RecordsIn(js) > 0 THEN p + 1 ELSE 0

\* lines 79-81: time.sleep(0.15) in the branch that goes on to the next page
PauseAfterSuccess(js) == Truthy(js)

PauseAfter(js) == Truthy(js) /\ HasNext(js) /\ RecordsIn(js) > 0

CappedAtTwo(js, p) ==
  IF ~Truthy(js) THEN 0
  ELSE IF HasNext(js) /\ RecordsIn(js) > 0 /\ p < 2 THEN p + 1 ELSE 0

NextLinkOnly(js, p) ==
  IF ~Truthy(js) THEN 0
  ELSE IF HasNext(js) THEN p + 1 ELSE 0

NextOrRecords(js, p) ==
  IF ~Truthy(js) THEN 0
  ELSE IF HasNext(js) \/ RecordsIn(js) > 0 THEN p + 1 ELSE 0

NextPage(js, p) ==
  IF ~Truthy(js) THEN 0
  ELSE IF HasNext(js) /\ RecordsIn(js) > 0 THEN p + 1 ELSE 0

\* lines 88-90: pd.to_datetime(..., errors="coerce", utc=True) and .dt.year;
\* a null date gives NaT, whose year is missing
NaT == [nat |-> TRUE, y |-> 0]
YearOf(d) ==
  IF d.null THEN NaT
  ELSE [nat |-> FALSE, y |-> IF d.rolls THEN d.y + 1 ELSE d.y]

\* lines 85-91: df = pd.DataFrame(todos) with the derived column "ano"
\* (the column ano_mes, the month of the same timestamp, is left out)
\* a DataFrame, by its rows
DataFrame(rows) == [rows |-> rows]

DerivedRows(recs) ==
  [i \in 1 .. Len(recs) |->
     [id |-> recs[i].id, ano |-> YearOf(recs[i].dataApresentacao)]]

NoneWhenEmpty(recs) ==
  IF recs = <<>> THEN None ELSE DataFrame(DerivedRows(recs))

BuildDf(recs) == DataFrame(DerivedRows(recs))

\* df.empty
IsEmpty(d) == Len(d.rows) = 0

CollectIdle ==
  /\ cpc = "idle"
  /\ ano = 0
  /\ pagina = 0
  /\ todos = <<>>
  /\ reqLog = <<>>
  /\ yearsDone = <<>>
  /\ df = NoDf

\* line 58: todos = []
CollectStart ==
  /\ cpc = "idle"
  /\ cpc' = "for"
  /\ todos' = <<>>
  /\ ano' = ano_ini - 1
  /\ pagina' = 0
  /\ reqLog' = <<>>
  /\ yearsDone' = <<>>
  /\ df' = NoDf
  /\ UNCHANGED <<listingVars, ano_ini, ano_fim>>

RECURSIVE RecordsOf(_)
\* how many records the successful fetches of a log carried
RecordsOf(log) ==
  IF log = <<>> THEN 0
  ELSE (IF log[1].op = "fetch" /\ Truthy(log[1].js) THEN RecordsIn(log[1].js) ELSE 0)
         + RecordsOf(Tail(log))

\* the summary of a year whose paging ended
YearSummary(y, log) ==
  [ano |-> y,
   requests |-> Len(Fetches(log)),
   records |-> RecordsOf(log),
   pauses |-> Len(Pauses(log)),
   failed |-> \E i \in 1 .. Len(log) : log[i].op = "fetch" /\ log[i].js = None]

\* lines 59-60: for ano in range(ano_ini, ano_fim + 1): pagina = 1
ForYear ==
  /\ cpc = "for"
  /\ yearsDone' = IF reqLog = <<>> THEN yearsDone
                  ELSE Append(yearsDone, YearSummary(ano, reqLog))
  /\ reqLog' = <<>>
  /\ IF ano + 1 <= ano_fim
     THEN /\ ano' = ano + 1
          /\ pagina' = 1
          /\ cpc' = "while"
     ELSE /\ cpc' = "build"
          /\ UNCHANGED <<ano, pagina>>
  /\ UNCHANGED <<listingVars, ano_ini, ano_fim, todos, df>>

\* lines 61-83, one pass of the while loop: fetch the page, stop on a falsy
\* answer, else extend todos and either pause and go on or break
FetchPage ==
  /\ cpc = "while"
  /\ \E js \in PageAnswers(ano, pagina, Len(todos), dateShape) :
       LET nxt == NextPage(js, pagina)
       IN  /\ todos' = IF Truthy(js) THEN todos \o Get(js, "dados", <<>>)
                       ELSE todos
           /\ reqLog' = IF PauseAfter(js)
                        THEN reqLog \o <<FetchEvent(ano, pagina, js),
                                         PauseEvent(ano, pagina)>>
                        ELSE Append(reqLog, FetchEvent(ano, pagina, js))
           /\ IF nxt = 0
              THEN /\ cpc' = "for"
                   /\ pagina' = pagina
              ELSE /\ cpc' = "while"
                   /\ pagina' = nxt
  /\ UNCHANGED <<listingVars, ano_ini, ano_fim, ano, yearsDone, df>>

\* lines 85-91: build the DataFrame and return it
CollectBuild ==
  /\ cpc = "build"
  /\ df' = RetDf(BuildDf(todos))
  /\ cpc' = "done"
  /\ UNCHANGED <<listingVars, ano_ini, ano_fim, ano, pagina, todos, reqLog, yearsDone>>

(***************************************************************************)
(* st.cache_data(ttl=3600): a cache is a set of entries; an entry holds    *)
(* the arguments, the value and the time it expires.  A hit does not renew *)
(* the entry; storing drops the entries that have expired.                 *)
(***************************************************************************)
FreshForever(e, now) == TRUE

\* the entry is still inside its window
Fresh(e, now) == now < e.exp

Live(c, args, now) == {e \in c : e.args = args /\ Fresh(e, now)}
CacheHit(c, args, now) == Live(c, args, now) # {}
CacheValue(c, args, now) == (CHOOSE e \in Live(c, args, now) : TRUE).value
CacheStore(c, args, v, now) ==
  {e \in c : e.args # args /\ Fresh(e, now)}
    \cup {[args |-> args, value |-> v, exp |-> now + TTL]}

(***************************************************************************)
(* The endpoints /proposicoes/{id}/autores and /deputados/{id} as the      *)
(* resolvers see them through safe_get.                                    *)
(***************************************************************************)
Parlamentar == <<"P", "a", "r", "l", "a", "m", "e", "n", "t", "a", "r">>
PARLAMENTARES ==
  <<"P", "A", "R", "L", "A", "M", "E", "N", "T", "A", "R", "E", "S">>
Comissao == <<"C", "o", "m", "i", "s", "s", "a", "o">>
parlamentar == Lower(Parlamentar)

Dep55 == 55
Dep56 == 56
Deps == {Dep55, Dep56}

\* author references: a JSON null is written as a missing key, which
\* a.get(key) reads the same way
ParlTop(d) == [tipoAutor |-> Parlamentar, idDeputado |-> d]
ParlNested(d) == [tipoAutor |-> PARLAMENTARES, autor |-> [id |-> d]]
ParlZeroTop(d) == [tipoAutor |-> parlamentar, idDeputado |-> 0, autor |-> [id |-> d]]
ParlBoth(d, e) == [tipoAutor |-> parlamentar, idDeputado |-> d, autor |-> [id |-> e]]
ParlNoId == [tipoAutor |-> Parlamentar, autor |-> EmptyObj]
Other(d) == [tipoAutor |-> Comissao, idDeputado |-> d]
NoType(d) == [idDeputado |-> d]

Authors(list) == [dados |-> list]

\* what safe_get may return for the authors of a bill
AutAnswers ==
  { None,
    Authors(<<>>),
    Authors(<<ParlTop(Dep55)>>),
    Authors(<<Other(Dep55)>>),
    Authors(<<ParlNested(Dep56), ParlTop(Dep55)>>),
    Authors(<<ParlTop(Dep55), ParlBoth(Dep55, Dep56)>>),
    Authors(<<ParlZeroTop(Dep56), ParlNoId>>),
    Authors(<<NoType(Dep56), Other(Dep56)>>) }

Sigla(str) == [dados |-> [ultimoStatus |-> [siglaPartido |-> str]]]

\* what safe_get may return for a legislator
PartyAnswers ==
  { None,
    Sigla(<<"p", "t">>),
    Sigla(<<"P", "s", "D", "B">>),
    [dados |-> [ultimoStatus |-> EmptyObj]],
    [dados |-> EmptyObj] }

\* the answer for bill pid: the table apiAutores repeats with its length
AutAnswer(pid) == apiAutores[((pid - 1) % Len(apiAutores)) + 1]

(***************************************************************************)
(* autores_por_proposicao, partido_do_deputado, contagem_por_partido       *)
(***************************************************************************)
\* lines 97-99: [] when the fetch failed, else js.get("dados", [])
AutoresOf(js) == IF ~Truthy(js) THEN <<>> ELSE Get(js, "dados", <<>>)

\* lines 109-113: "" when the fetch failed or a level is missing, else the
\* party code in upper case
PartidoAsSent(js) ==
  IF ~Truthy(js) THEN <<>>
  ELSE LET dados == Get(js, "dados", EmptyObj)
           ultimo == Get(dados, "ultimoStatus", EmptyObj)
       IN  Get(ultimo, "siglaPartido", <<>>)

PartidoOf(js) ==
  IF ~Truthy(js) THEN <<>>
  ELSE LET dados == Get(js, "dados", EmptyObj)
           ultimo == Get(dados, "ultimoStatus", EmptyObj)
       IN  Upper(Get(ultimo, "siglaPartido", <<>>))

\* a missing identifier, NaN in the id column
NaN == -1

\* line 122: df_pl.get("id", ...).dropna().astype(int).tolist()
IdsOf(d) ==
  LET col == [i \in 1 .. Len(d.rows) |-> d.rows[i].id]
  IN  SelectSeq(col, LAMBDA x : x # NaN)

Take(s, n) == SubSeq(s, 1, IF Len(s) < n THEN Len(s) ELSE n)

\* lines 123-125: the sample
SampleOneShort(list, todosFlag) ==
  IF ~todosFlag THEN Take(list, SampleLimit - 1) ELSE list

Sample(list, todosFlag) == IF ~todosFlag THEN Take(list, SampleLimit) ELSE list

\* line 135: (a.get("tipoAutor") or "").lower().startswith("parlamentar")
IsParlamentar(a) ==
  StartsWith(Lower(Get(a, "tipoAutor", <<>>)), parlamentar)

\* line 137: a.get("idDeputado") or (a.get("autor") or {}).get("id");
\* 0 stands for "no identifier" (None, or a falsy 0)
NestedFirst(a) ==
  IF Get(Get(a, "autor", EmptyObj), "id", 0) # 0 THEN a.autor.id
  ELSE Get(a, "idDeputado", 0)

LegislatorId(a) ==
  IF Get(a, "idDeputado", 0) # 0 THEN a.idDeputado
  ELSE Get(Get(a, "autor", EmptyObj), "id", 0)

\* lines 140-141: if p: partidos.append(p)
TallyDistinct(tally, pty) ==
  IF pty # <<>> /\ \A i \in 1 .. Len(tally) : tally[i] # pty
  THEN Append(tally, pty) ELSE tally

Tally(tally, pty) == IF pty # <<>> THEN Append(tally, pty) ELSE tally

NetEvent(fn, id) == [fn |-> fn, id |-> id]

\* line 129: if i % 25 == 0, at the top of pass i (i counts from 1)
PauseCountingFromZero(i) == (i - 1) % PauseEvery = 0

PauseBefore(i) == i % PauseEvery = 0

\* line 139, the call partido_do_deputado(int(idep)) through its cache, on
\* the state st = [partidos, cachePart, netLog] of the loop
WithPartidoUncached(st, idep) ==
  LET pty == PartidoOf(apiPartido[idep])
  IN  [partidos |-> Tally(st.partidos, pty),
       cachePart |-> CacheStore(st.cachePart, idep, pty, clock),
       netLog |-> Append(st.netLog, NetEvent("deputados", idep))]

WithPartidoNoEmptyMemo(st, idep) ==
  IF CacheHit(st.cachePart, idep, clock)
       /\ CacheValue(st.cachePart, idep, clock) # <<>>
  THEN [st EXCEPT !.partidos = Tally(@, CacheValue(st.cachePart, idep, clock))]
  ELSE LET pty == PartidoOf(apiPartido[idep])
       IN  [partidos |-> Tally(st.partidos, pty),
            cachePart |-> IF pty = <<>> THEN st.cachePart
                          ELSE CacheStore(st.cachePart, idep, pty, clock),
            netLog |-> Append(st.netLog, NetEvent("deputados", idep))]

WithPartido(st, idep) ==
  IF CacheHit(st.cachePart, idep, clock)
  THEN [st EXCEPT !.partidos = Tally(@, CacheValue(st.cachePart, idep, clock))]
  ELSE LET pty == PartidoOf(apiPartido[idep])
       IN  [partidos |-> Tally(st.partidos, pty),
            cachePart |-> CacheStore(st.cachePart, idep, pty, clock),
            netLog |-> Append(st.netLog, NetEvent("deputados", idep))]

RECURSIVE ForAutores(_, _)
\* lines 133-141: for a in autores
ForAutores(st, autores) ==
  IF autores = <<>> THEN st
  ELSE LET a == Head(autores)
           st1 == IF IsParlamentar(a) /\ LegislatorId(a) # 0
                  THEN WithPartido(st, LegislatorId(a))
                  ELSE st
       IN  ForAutores(st1, Tail(autores))

RECURSIVE Ascending(_)
\* a finite set of numbers as the sequence of its elements, smallest first
Ascending(S) ==
  IF S = {} THEN <<>>
  ELSE LET m == CHOOSE x \in S : \A y \in S : x <= y
       IN  <<m>> \o Ascending(S \ {m})

\* the distinct values of a sequence, in the order they first appear
Distinct(seq) ==
  LET firsts == Ascending({i \in 1 .. Len(seq) :
                             \A j \in 1 .. (i - 1) : seq[j] # seq[i]})
  IN  [k \in 1 .. Len(firsts) |-> seq[firsts[k]]]

Occurrences(seq, x) == Cardinality({i \in 1 .. Len(seq) : seq[i] = x})

\* line 147 left out: the rows as value_counts numbered them
Unsorted(rows) == rows

RECURSIVE SortDesc(_)
\* sort rows by the column autores, largest first, equal counts keeping
\* their order
SortDesc(rows) ==
  IF rows = <<>> THEN <<>>
  ELSE LET top == CHOOSE i \in 1 .. Len(rows) :
                    /\ \A j \in 1 .. Len(rows) : rows[j].autores <= rows[i].autores
                    /\ \A j \in 1 .. (i - 1) : rows[j].autores < rows[i].autores
       IN  <<rows[top]>>
             \o SortDesc(SubSeq(rows, 1, top - 1) \o SubSeq(rows, top + 1, Len(rows)))

\* lines 143-148: value_counts, as rows (partido, autores) sorted by count
\* descending; the empty table when nothing was tallied
\* a table with the columns of lines 145-146, by its rows
Table(rows) == [columns |-> <<"partido", "autores">>, rows |-> rows]

ContagemOf(tally) ==
  LET ps == Distinct(tally)
  IN  Table(SortDesc([i \in 1 .. Len(ps) |->
               [partido |-> ps[i], autores |-> Occurrences(tally, ps[i])]]))

AggIdle ==
  /\ apc = "idle"
  /\ ids = <<>>
  /\ idx = 0
  /\ partidos = <<>>
  /\ processed = <<>>
  /\ pausesAt = <<>>
  /\ netLog = <<>>
  /\ cont = NoRet

\* the call contagem_por_partido(df_pl, usar_todos) that finds its result in
\* the cache (line 115)
AggCached ==
  /\ apc = "idle"
  /\ CacheHit(cacheCont, <<df_pl, usar_todos>>, clock)
  /\ cont' = Ret(CacheValue(cacheCont, <<df_pl, usar_todos>>, clock))
  /\ apc' = "done"
  /\ ids' = <<>>
  /\ idx' = 0
  /\ partidos' = <<>>
  /\ processed' = <<>>
  /\ pausesAt' = <<>>
  /\ netLog' = <<>>
  /\ UNCHANGED <<df_pl, usar_todos, worldVars, cacheVars>>

\* lines 122-127: the identifiers, the sample, partidos = []
AggStart ==
  /\ apc = "idle"
  /\ ~CacheHit(cacheCont, <<df_pl, usar_todos>>, clock)
  /\ ids' = Sample(IdsOf(df_pl), usar_todos)
  /\ idx' = 0
  /\ partidos' = <<>>
  /\ processed' = <<>>
  /\ pausesAt' = <<>>
  /\ netLog' = <<>>
  /\ cont' = NoRet
  /\ apc' = "loop"
  /\ UNCHANGED <<df_pl, usar_todos, worldVars, cacheVars>>

\* lines 128-141, one pass of "for i, pid in enumerate(ids, start=1)": the
\* pause every 25th pass, the authors of the bill through the cache of
\* autores_por_proposicao, and the party of each parliamentary author
AggBill ==
  /\ apc = "loop"
  /\ idx < Len(ids)
  /\ LET i == idx + 1
         pid == ids[i]
         hit == CacheHit(cacheAut, pid, clock)
         autores == IF hit THEN CacheValue(cacheAut, pid, clock)
                    ELSE AutoresOf(AutAnswer(pid))
         log1 == IF hit THEN netLog
                 ELSE Append(netLog, NetEvent("autores", pid))
         st == ForAutores([partidos |-> partidos, cachePart |-> cachePart,
                           netLog |-> log1], autores)
     IN  /\ pausesAt' = IF PauseBefore(i)
                        THEN Append(pausesAt, Len(processed)) ELSE pausesAt
         /\ cacheAut' = IF hit THEN cacheAut
                        ELSE CacheStore(cacheAut, pid, autores, clock)
         /\ processed' = Append(processed, pid)
         /\ partidos' = st.partidos
         /\ cachePart' = st.cachePart
         /\ netLog' = st.netLog
         /\ idx' = i
  /\ UNCHANGED <<df_pl, usar_todos, apc, ids, cont, worldVars, clock, cacheCont>>

\* lines 143-148: count, sort, return (and the cache keeps the result)
AggFinish ==
  /\ apc = "loop"
  /\ idx = Len(ids)
  /\ cont' = Ret(ContagemOf(partidos))
  /\ cacheCont' = CacheStore(cacheCont, <<df_pl, usar_todos>>,
                             ContagemOf(partidos), clock)
  /\ apc' = "done"
  /\ UNCHANGED <<df_pl, usar_todos, ids, idx, partidos, processed, pausesAt,
                 netLog, worldVars, clock, cacheAut, cachePart>>

(***************************************************************************)
(* The dashboard driver: the script of lines 152-201, which Streamlit runs *)
(* again from the top at every interaction.                                *)
(***************************************************************************)
NoPrev == [known |-> FALSE, value |-> None, at |-> 0, degraded |-> FALSE]

\* what `computed` holds for the arguments
PrevOf(hist, args) ==
  IF \E h \in hist : h.args = args
  THEN LET h == CHOOSE h \in hist : h.args = args
       IN  [known |-> TRUE, value |-> h.value, at |-> h.at,
            degraded |-> h.degraded]
  ELSE NoPrev

\* the call computed v at time now; bad: a page fetch of the call failed
Record(hist, args, v, now, bad) ==
  {h \in hist : h.args # args}
    \cup {[args |-> args, value |-> v, at |-> now, degraded |-> bad]}

\* the fetches of the resolvers in `log` happened at time now; failed: the
\* fetch returned None or an empty object and the resolver its default
Noted(hist, log, now) ==
  LET keys == {<<log[k].fn, log[k].id>> : k \in 1 .. Len(log)}
      failed(key) == IF key[1] = "autores" THEN ~Truthy(AutAnswer(key[2]))
                     ELSE ~Truthy(apiPartido[key[2]])
  IN  {h \in hist : <<h.fn, h.id>> \notin keys}
        \cup {[fn |-> key[1], id |-> key[2], at |-> now,
                failed |-> failed(key)] : key \in keys}

\* the page requests the current call of buscar_pls_periodo has issued
RECURSIVE SumRequests(_)
SumRequests(ys) == IF ys = <<>> THEN 0 ELSE ys[1].requests + SumRequests(Tail(ys))
Requests == SumRequests(yearsDone) + Len(Fetches(reqLog))

\* line 172: if df.empty
NeverHalt(d) == FALSE

ShouldHalt(d) == IsEmpty(d)

\* a healthy answer of the two endpoints
HealthyAutores == <<Authors(<<ParlTop(Dep55)>>)>>
HealthyPartido == [d \in Deps |-> Sigla(<<"p", "t">>)]

\* lines 154-166, a run of the script begins with the years a and b in the
\* two number inputs: time has passed since the last run, the toggle holds
\* the user's choice, and do_fetch is true
RunStart(a, b, u) ==
  /\ dpc \in {"start", "halted", "rendered"}
  /\ runs < MaxRuns
  /\ runs' = runs + 1
  /\ \E d \in IF runs = 0 THEN {0} ELSE {TTL - 1, TTL} : clock' = clock + d
  /\ ano_ini' = a
  /\ ano_fim' = b
  /\ prev' = PrevOf(computed, <<a, b>>)
  /\ usar_todos' = u
  /\ dpc' = "fetch"
  /\ aggCalled' = FALSE
  /\ errorShown' = FALSE
  /\ cpc' = "idle"
  /\ ano' = 0
  /\ pagina' = 0
  /\ todos' = <<>>
  /\ reqLog' = <<>>
  /\ yearsDone' = <<>>
  /\ df' = NoDf
  /\ df_pl' = DataFrame(<<>>)
  /\ apc' = "idle"
  /\ ids' = <<>>
  /\ idx' = 0
  /\ partidos' = <<>>
  /\ processed' = <<>>
  /\ pausesAt' = <<>>
  /\ netLog' = <<>>
  /\ cont' = NoRet
  /\ UNCHANGED <<fetchVars, listingVars, cacheAut, cachePart, cacheCont,
                 cachePls, computed, resolved>>

\* lines 156-164: what one interaction of the user leaves in the widgets.
\* Every interaction reruns the script, so one widget changes at a time: the
\* first year (kept at or below the last), the last year (min_value of line
\* 158), the toggle, or nothing (the button)
Interactions ==
  {<<a, ano_fim, usar_todos>> : a \in {y \in Years : y <= ano_fim}}
    \cup {<<ano_ini, b, usar_todos>> : b \in ano_ini .. (FirstYear + NumYears - 1)}
    \cup {<<ano_ini, ano_fim, ~usar_todos>>}

\* the first run of the script has the values the widgets start with, every
\* later run follows an interaction
Rerun ==
  /\ \E w \in IF runs = 0 THEN {<<ano_ini, ano_fim, usar_todos>>} ELSE Interactions :
       RunStart(w[1], w[2], w[3])
  /\ UNCHANGED worldVars

\* lines 162-164: the user flipped the toggle or pressed "Atualizar dados"
\* and the years are as they were; meanwhile an endpoint that was failing
\* may have recovered
Retry ==
  /\ \E u \in BOOLEAN : RunStart(ano_ini, ano_fim, u)
  /\ apiAutores' \in {apiAutores, HealthyAutores}
  /\ apiPartido' \in {apiPartido, HealthyPartido}

\* line 170 with the decorator of line 52: the result is in the cache
CollectCached ==
  /\ dpc = "fetch"
  /\ CacheHit(cachePls, <<ano_ini, ano_fim>>, clock)
  /\ df' = RetDf(CacheValue(cachePls, <<ano_ini, ano_fim>>, clock))
  /\ dpc' = "check"
  /\ UNCHANGED <<fetchVars, listingVars, ano_ini, ano_fim, cpc, ano, pagina,
                 todos, reqLog, yearsDone, worldVars, cacheVars, aggVars,
                 runs, cachePls, computed, prev, resolved, aggCalled, errorShown>>

\* line 170: it is not, and buscar_pls_periodo runs
CollectCall ==
  /\ dpc = "fetch"
  /\ ~CacheHit(cachePls, <<ano_ini, ano_fim>>, clock)
  /\ CollectStart
  /\ dpc' = "collecting"
  /\ UNCHANGED <<fetchVars, worldVars, cacheVars, aggVars,
                 runs, cachePls, computed, prev, resolved, aggCalled, errorShown>>

\* the call returns and the cache keeps the result for TTL seconds
CollectReturn ==
  /\ dpc = "collecting"
  /\ cpc = "done"
  /\ cachePls' = CacheStore(cachePls, <<ano_ini, ano_fim>>, df.value, clock)
  /\ computed' = Record(computed, <<ano_ini, ano_fim>>, df.value, clock,
                        \E i \in 1 .. Len(yearsDone) : yearsDone[i].failed)
  /\ dpc' = "check"
  /\ UNCHANGED <<fetchVars, collectVars, worldVars, cacheVars, aggVars,
                 runs, prev, resolved, aggCalled, errorShown>>

\* lines 172-174: if df.empty: st.error(...); st.stop()
CheckEmpty ==
  /\ dpc = "check"
  /\ IF ShouldHalt(df.value)
     THEN /\ errorShown' = TRUE
          /\ dpc' = "halted"
     ELSE /\ errorShown' = errorShown
          /\ dpc' = "chart"
  /\ UNCHANGED <<fetchVars, collectVars, worldVars, cacheVars, aggVars,
                 runs, cachePls, computed, prev, resolved, aggCalled>>

\* lines 176-186: the monthly chart, then the call
\* contagem_por_partido(df, usar_todos)
CallAggregator ==
  /\ dpc = "chart"
  /\ df_pl' = df.value
  /\ aggCalled' = TRUE
  /\ dpc' = "aggregating"
  /\ UNCHANGED <<fetchVars, collectVars, worldVars, cacheVars, usar_todos, apc,
                 ids, idx, partidos, processed, pausesAt, netLog, cont,
                 runs, cachePls, computed, prev, resolved, errorShown>>

\* lines 188-201: the party chart or its warning, the table, the links
Render ==
  /\ dpc = "aggregating"
  /\ apc = "done"
  /\ dpc' = "rendered"
  /\ resolved' = Noted(resolved, netLog, clock)
  /\ UNCHANGED <<fetchVars, collectVars, worldVars, cacheVars, aggVars,
                 runs, cachePls, computed, prev, aggCalled, errorShown>>

(***************************************************************************)
(* Specifications                                                          *)
(***************************************************************************)
vars == <<fetchVars, collectVars, worldVars, cacheVars, aggVars, driverVars>>

\* the API and the arguments at rest, for the specifications that never
\* call buscar_pls_periodo
CollectUnused ==
  /\ dateShape = "inYear"
  /\ apiPages = MaxPage
  /\ apiItems = MaxItems
  /\ ano_ini = FirstYear
  /\ ano_fim = FirstYear
  /\ CollectIdle

\* the same for contagem_por_partido and the caches
AggUnused ==
  /\ apiAutores = <<None>>
  /\ apiPartido = [d \in Deps |-> None]
  /\ clock = 0
  /\ cacheAut = {}
  /\ cachePart = {}
  /\ cacheCont = {}
  /\ df_pl = DataFrame(<<>>)
  /\ usar_todos = FALSE
  /\ AggIdle

\* the same for the driver
DriverUnused ==
  /\ dpc = "start"
  /\ runs = 0
  /\ cachePls = {}
  /\ computed = {}
  /\ prev = NoPrev
  /\ resolved = {}
  /\ aggCalled = FALSE
  /\ errorShown = FALSE

FetchInit == FetchIdle /\ CollectUnused /\ AggUnused /\ DriverUnused

otherThanFetch == <<collectVars, worldVars, cacheVars, aggVars, driverVars>>

NextFetch ==
  \/ SafeGetCall /\ UNCHANGED otherThanFetch
  \/ SessionGet1 /\ UNCHANGED otherThanFetch
  \/ Check429 /\ UNCHANGED otherThanFetch
  \/ Sleep /\ UNCHANGED otherThanFetch
  \/ SessionGet2 /\ UNCHANGED otherThanFetch
  \/ RaiseForStatus /\ UNCHANGED otherThanFetch
  \/ ReturnJson /\ UNCHANGED otherThanFetch
  \/ ExceptHTTPError /\ UNCHANGED otherThanFetch
  \/ ExceptException /\ UNCHANGED otherThanFetch

SpecFetch == FetchInit /\ [][NextFetch]_vars

\* one call buscar_pls_periodo(ano_ini, ano_fim) with ano_ini <= ano_fim
InitCollect ==
  /\ FetchIdle
  /\ AggUnused
  /\ DriverUnused
  /\ dateShape \in DateShapes
  /\ apiPages = MaxPage
  /\ apiItems = MaxItems
  /\ ano_ini \in Years
  /\ ano_fim \in ano_ini .. (FirstYear + NumYears - 1)
  /\ CollectIdle

NextCollect ==
  \/ CollectStart /\ UNCHANGED <<fetchVars, worldVars, cacheVars, aggVars, driverVars>>
  \/ ForYear /\ UNCHANGED <<fetchVars, worldVars, cacheVars, aggVars, driverVars>>
  \/ FetchPage /\ UNCHANGED <<fetchVars, worldVars, cacheVars, aggVars, driverVars>>
  \/ CollectBuild /\ UNCHANGED <<fetchVars, worldVars, cacheVars, aggVars, driverVars>>

SpecCollect == InitCollect /\ [][NextCollect]_vars

\* the same call, which goes on as long as it has a next statement
SpecCollectFair == SpecCollect /\ WF_vars(NextCollect)

\* a DataFrame of bills with the given identifiers
BillsFrame(list) ==
  DataFrame([i \in 1 .. Len(list) |-> [id |-> list[i], ano |-> NaT]])

\* the first bill identifier of the short inputs
FirstBill == 101

\* the short inputs: up to MaxBills distinct bills, one bill twice, and a
\* row without identifier
ShortInputs ==
  { [i \in 1 .. n |-> FirstBill + i - 1] : n \in 0 .. MaxBills }
    \cup { <<FirstBill, FirstBill>>, <<NaN, FirstBill>> }

\* the long inputs: around SampleLimit bills
LongInputs ==
  { [i \in 1 .. n |-> i] :
      n \in {SampleLimit - 1, SampleLimit, SampleLimit + 1, SampleLimit + ExtraIds} }

\* one call contagem_por_partido(df_pl, usar_todos): a short input against
\* every answer of the two endpoints, or a long input whose bills all have
\* the same authors
InitAgg ==
  /\ FetchIdle
  /\ CollectUnused
  /\ DriverUnused
  /\ clock = 0
  /\ cacheAut = {}
  /\ cachePart = {}
  /\ cacheCont = {}
  /\ usar_todos \in BOOLEAN
  /\ \/ /\ df_pl \in {BillsFrame(l) : l \in ShortInputs}
        /\ apiAutores \in [1 .. MaxBills -> AutAnswers]
        /\ apiPartido \in [Deps -> PartyAnswers]
     \/ /\ df_pl \in {BillsFrame(l) : l \in LongInputs}
        /\ apiAutores \in {<<Authors(<<ParlTop(Dep55)>>)>>, <<None>>}
        /\ apiPartido = [d \in Deps |-> Sigla(<<"p", "t">>)]
  /\ AggIdle

NextAgg ==
  \/ AggStart /\ UNCHANGED <<fetchVars, collectVars, driverVars>>
  \/ AggBill /\ UNCHANGED <<fetchVars, collectVars, driverVars>>
  \/ AggFinish /\ UNCHANGED <<fetchVars, collectVars, driverVars>>

SpecAgg == InitAgg /\ [][NextAgg]_vars

\* the dashboard.  Paging is SpecCollect's subject: here the listing has one
\* page of at most one bill per year, every bill has one parliamentary
\* author, and the dates are in their year.
Init ==
  /\ FetchIdle
  /\ dateShape = "inYear"
  /\ apiPages = 1
  /\ apiItems = 1
  /\ ano_ini = FirstYear
  /\ ano_fim = FirstYear + NumYears - 1
  /\ CollectIdle
  /\ apiAutores = HealthyAutores
  /\ apiPartido = HealthyPartido
  /\ clock = 0
  /\ cacheAut = {}
  /\ cachePart = {}
  /\ cacheCont = {}
  /\ df_pl = DataFrame(<<>>)
  /\ usar_todos = FALSE
  /\ AggIdle
  /\ DriverUnused

collecting == dpc = "collecting"
aggregating == dpc = "aggregating"

\* the steps of a run once it has begun
RunSteps ==
  \/ CollectCached
  \/ CollectCall
  \/ collecting /\ ForYear /\ UNCHANGED <<fetchVars, worldVars, cacheVars, aggVars, driverVars>>
  \/ collecting /\ FetchPage /\ UNCHANGED <<fetchVars, worldVars, cacheVars, aggVars, driverVars>>
  \/ collecting /\ CollectBuild /\ UNCHANGED <<fetchVars, worldVars, cacheVars, aggVars, driverVars>>
  \/ CollectReturn
  \/ CheckEmpty
  \/ CallAggregator
  \/ aggregating /\ AggCached /\ UNCHANGED <<fetchVars, collectVars, driverVars>>
  \/ aggregating /\ AggStart /\ UNCHANGED <<fetchVars, collectVars, driverVars>>
  \/ aggregating /\ AggBill /\ UNCHANGED <<fetchVars, collectVars, driverVars>>
  \/ aggregating /\ AggFinish /\ UNCHANGED <<fetchVars, collectVars, driverVars>>
  \/ Render

Next ==
  \/ Rerun
  \/ RunSteps

Spec == Init /\ [][Next]_vars

\* the dashboard during an outage: the authors endpoint or the deputies
\* endpoint fails at first (the listing may fail at any fetch), the user
\* keeps the years and runs the script again
InitOutage ==
  /\ FetchIdle
  /\ dateShape = "inYear"
  /\ apiPages = 1
  /\ apiItems = 1
  /\ ano_ini \in Years
  /\ ano_fim \in ano_ini .. (FirstYear + NumYears - 1)
  /\ CollectIdle
  /\ \/ apiAutores = <<None>> /\ apiPartido = HealthyPartido
     \/ apiAutores = HealthyAutores /\ apiPartido = [d \in Deps |-> None]
  /\ clock = 0
  /\ cacheAut = {}
  /\ cachePart = {}
  /\ cacheCont = {}
  /\ df_pl = DataFrame(<<>>)
  /\ usar_todos = FALSE
  /\ AggIdle
  /\ DriverUnused

NextOutage ==
  \/ Retry
  \/ RunSteps

SpecOutage == InitOutage /\ [][NextOutage]_vars

(***************************************************************************)
(* Claims about safe_get, checked under SpecFetch.                         *)
(***************************************************************************)
Gets(t) == SelectSeq(t, LAMBDA e : e.op = "get")
Warnings(t) == SelectSeq(t, LAMBDA e : e.op = "warn")

\* the call of safe_get is over
CallOver == spc \in {"returned", "propagated"}

\* a request failed: it raised, or its status is an error status
RequestFailed(o) == o.raises # "none" \/ o.status >= ErrorStatusFrom

\* the first session request of the call returned status 429
FirstIs429 ==
  /\ trace # <<>>
  /\ trace[1].out.raises = "none"
  /\ trace[1].out.status = TooManyRequests

\* the duration the Retry-After header gives, 2 seconds when it is absent
RetryAfterSecs(h) == IF h.present THEN PyInt(h.value).val ELSE DefaultRetryAfter

\* C2: a call issues at most two session requests; after a first answer of
\* 429 it sleeps for the Retry-After duration (2 s without the header)
\* before anything else and then issues exactly one more request, returning
\* absent if that one fails too; a second request only ever follows a 429
\* and the sleep.
RateLimitRetry ==
  CallOver =>
    /\ Len(Gets(trace)) <= 2
    /\ FirstIs429 =>
         /\ Len(trace) >= 3
         /\ trace[2].op = "sleep"
         /\ trace[2].secs = RetryAfterSecs(trace[1].out.retryAfter)
         /\ trace[3].op = "get"
         /\ Len(Gets(trace)) = 2
         /\ RequestFailed(trace[3].out) => (ret.returned /\ ret.value = None)
    /\ Len(Gets(trace)) = 2 => (FirstIs429 /\ trace[2].op = "sleep")

\* C3: safe_get never lets an exception out.  Whatever the requests did, the
\* call returns; it returns None with one warning when the last request
\* raised or had an error status, when Retry-After did not parse and when
\* the body did not decode, and it returns the decoded body only when the
\* last request issued had a non-error status.
SafeGetNeverRaises ==
  /\ spc # "propagated"
  /\ spc = "returned" =>
       LET G == Gets(trace)
           last == Last(G).out
       IN  /\ ret.returned
           /\ G # <<>>
           /\ ret.value # None =>
                /\ last.raises = "none"
                /\ last.status < ErrorStatusFrom
                /\ last.body = JsonBody(ret.value)
                /\ Warnings(trace) = <<>>
           /\ ret.value = None =>
                /\ Len(Warnings(trace)) = 1
                /\ Last(trace).op = "warn"
           /\ (RequestFailed(last) \/ ~last.body.decodable) => ret.value = None
           /\ (FirstIs429 /\ trace[1].out.retryAfter.present
                 /\ ~PyInt(trace[1].out.retryAfter.value).ok) => ret.value = None

\* the manual retry was answered 429 again
SafeGetWitness ==
  /\ spc = "returned"
  /\ Len(Gets(trace)) = 2
  /\ Last(Gets(trace)).out.status = TooManyRequests
  /\ ret.value = None
  /\ Last(trace) = WarnEvent("HTTPError")

(***************************************************************************)
(* Claims about buscar_pls_periodo, checked under SpecCollect.             *)
(***************************************************************************)
RECURSIVE SumRecords(_)
SumRecords(ys) == IF ys = <<>> THEN 0 ELSE ys[1].records + SumRecords(Tail(ys))

\* a page that carries a "next" link and at least one record
FullPage(js) == Truthy(js) /\ HasNext(js) /\ RecordsIn(js) > 0

\* the number of leading full pages among the answers of a log of fetches
Lead(F) ==
  CHOOSE n \in 0 .. Len(F) :
    /\ \A i \in 1 .. n : FullPage(F[i].js)
    /\ n = Len(F) \/ ~FullPage(F[n + 1].js)

\* the years whose paging ended are ano_ini, ano_ini + 1, ... in order, and
\* the year being paged is the one after them
YearsInOrder ==
  /\ \A i \in 1 .. Len(yearsDone) : yearsDone[i].ano = ano_ini + i - 1
  /\ cpc = "while" => ano = ano_ini + Len(yearsDone)
  /\ (cpc = "for" /\ reqLog # <<>>) => ano = ano_ini + Len(yearsDone)
  /\ cpc \in {"build", "done"} => Len(yearsDone) = ano_fim - ano_ini + 1

\* C1: in every year the page requests carry the page numbers 1, 2, ... in
\* that order; when the answers are N pages with a "next" link and a record
\* followed by a page without a "next" link, exactly N+1 requests were issued
\* for the year and its paging is over, and no ended year is requested again.
PaginationTerminates ==
  LET F == Fetches(reqLog)
      N == Lead(F)
  IN  /\ \A i \in 1 .. Len(F) : F[i].pagina = i /\ F[i].ano = ano
      /\ (N < Len(F) /\ F[N + 1].js # None /\ ~HasNext(F[N + 1].js))
           => (Len(F) = N + 1 /\ cpc = "for")
      /\ cpc = "while" => (Lead(F) = Len(F) /\ pagina = Len(F) + 1)
      /\ \A i \in 1 .. Len(yearsDone) :
           /\ yearsDone[i].requests >= 1
           /\ reqLog # <<>> => yearsDone[i].ano < ano

PaginationWitness ==
  LET F == Fetches(reqLog)
  IN  /\ cpc = "for"
      /\ Len(F) = 3
      /\ Lead(F) = 2
      /\ F[3].js # None
      /\ RecordsIn(F[3].js) > 0
      /\ ~HasNext(F[3].js)
      /\ Len(yearsDone) = 1

\* C7: every bill of the returned sequence has a derived year in the
\* inclusive range [ano_ini, ano_fim].
YearInRange ==
  cpc = "done" =>
    \A i \in 1 .. Len(df.value.rows) :
      /\ ~df.value.rows[i].ano.nat
      /\ ano_ini <= df.value.rows[i].ano.y
      /\ df.value.rows[i].ano.y <= ano_fim

\* C8: a failed page fetch is the last request of its year (no retry, no
\* next page); the first request of a year is its page 1 and the year is
\* the one after the last ended year, every year of the range being paged;
\* and todos keeps every record collected before, in order.
FailureStopsYear ==
  LET F == Fetches(reqLog)
  IN  /\ \A i \in 1 .. Len(F) : F[i].js = None => (i = Len(F) /\ cpc = "for")
      /\ F # <<>> => (F[1].pagina = 1 /\ F[1].ano = ano)
      /\ YearsInOrder
      /\ Len(todos) = SumRecords(yearsDone) + RecordsOf(reqLog)
      /\ \A i \in 1 .. Len(todos) : todos[i].id = i

FailureWitness ==
  LET F == Fetches(reqLog)
  IN  /\ cpc = "for"
      /\ ano = ano_ini + 1
      /\ Len(yearsDone) = 1
      /\ yearsDone[1].failed
      /\ yearsDone[1].requests = 2
      /\ Len(F) = 2
      /\ F[2].js = None
      /\ Len(todos) = 2

\* every page fetch of the call returned absent
AllFetchesFailed ==
  /\ yearsDone # <<>>
  /\ \A i \in 1 .. Len(yearsDone) : yearsDone[i].failed /\ yearsDone[i].requests = 1

\* every page fetch of the call succeeded and none carried a record
NothingAvailable ==
  /\ yearsDone # <<>>
  /\ \A i \in 1 .. Len(yearsDone) : ~yearsDone[i].failed /\ yearsDone[i].records = 0

\* C9 as stated: the result is an empty sequence, not absent, when the API
\* yields nothing, and the return value tells "nothing available" from
\* "fetch failed": it is not the empty sequence when the fetches failed.
EmptyDistinguishesFailure ==
  cpc = "done" =>
    /\ df.value # None
    /\ NothingAvailable => IsEmpty(df.value)
    /\ AllFetchesFailed => ~IsEmpty(df.value)

\* C9 as amended: the call returns a sequence, never absent, and it is the
\* empty sequence whenever no record was collected, be it because every page
\* was empty or because page fetches failed.
EmptyNotAbsent ==
  cpc = "done" =>
    /\ df.returned
    /\ df.value # None
    /\ SumRecords(yearsDone) = 0 => IsEmpty(df.value)
    /\ SumRecords(yearsDone) > 0 => Len(df.value.rows) = SumRecords(yearsDone)

EmptyWitness ==
  /\ cpc = "done"
  /\ df.value # None
  /\ IsEmpty(df.value)
  /\ Len(yearsDone) = 2
  /\ yearsDone[1].failed
  /\ ~yearsDone[2].failed

(***************************************************************************)
(* Claims about contagem_por_partido (SpecAgg)                             *)
(***************************************************************************)
\* the identifiers the call was given, in input order (a row may lack one)
InputIds ==
  LET has == {i \in 1 .. Len(df_pl.rows) : df_pl.rows[i].id # NaN}
      nth(k) == CHOOSE i \in has : Cardinality({j \in has : j < i}) = k - 1
  IN  IF has = 1 .. Len(df_pl.rows)
      THEN [i \in 1 .. Len(df_pl.rows) |-> df_pl.rows[i].id]
      ELSE [k \in 1 .. Cardinality(has) |-> df_pl.rows[nth(k)].id]

\* how many of them the call is to process
ToProcess ==
  IF usar_todos \/ Len(InputIds) < SampleLimit THEN Len(InputIds) ELSE SampleLimit

\* C4: with the "use all" switch off and n input identifiers, the aggregator
\* processes exactly min(n, 800) identifiers, the first ones in input order;
\* with the switch on it processes all n.
SampleIsFirst800 ==
  /\ apc = "loop" =>
       /\ Len(processed) <= ToProcess
       /\ processed = SubSeq(InputIds, 1, Len(processed))
  /\ apc = "done" =>
       /\ Len(processed) = ToProcess
       /\ processed = SubSeq(InputIds, 1, ToProcess)
       /\ Cardinality({k \in 1 .. Len(netLog) : netLog[k].fn = "autores"})
            <= ToProcess

SampleWitness ==
  /\ apc = "done"
  /\ ~usar_todos
  /\ Len(InputIds) = SampleLimit + ExtraIds
  /\ Len(processed) = SampleLimit
  /\ processed[SampleLimit] = InputIds[SampleLimit]

\* the party codes the deputies endpoint can resolve to, by its answer
PT == <<"P", "T">>
PSDB == <<"P", "S", "D", "B">>
ResolvedParty(d) ==
  IF apiPartido[d] = Sigla(<<"p", "t">>) THEN PT
  ELSE IF apiPartido[d] = Sigla(<<"P", "s", "D", "B">>) THEN PSDB
  ELSE <<>>

\* the author references the authors endpoint lists for a bill
ListedAuthors(pid) ==
  IF AutAnswer(pid) = None THEN <<>> ELSE AutAnswer(pid).dados

\* a parliamentary author reference, by its type as the endpoint writes it
Parliamentary(a) ==
  /\ "tipoAutor" \in DOMAIN a
  /\ a.tipoAutor \in {Parlamentar, PARLAMENTARES, parlamentar}

\* the legislator a reference carries, 0 when it carries none
Carried(a) ==
  IF "idDeputado" \in DOMAIN a /\ a.idDeputado # 0 THEN a.idDeputado
  ELSE IF "autor" \in DOMAIN a /\ "id" \in DOMAIN a.autor THEN a.autor.id
  ELSE 0

\* the author references among the processed bills that are parliamentary,
\* carry a legislator and resolve to party code pty
ReferencesTo(pty) ==
  { ref \in { <<i, k>> : i \in 1 .. Len(processed), k \in 1 .. 2 } :
      LET as == ListedAuthors(processed[ref[1]])
      IN  /\ ref[2] <= Len(as)
          /\ Parliamentary(as[ref[2]])
          /\ Carried(as[ref[2]]) # 0
          /\ ResolvedParty(Carried(as[ref[2]])) = pty }

RowsOf(pty) ==
  {k \in 1 .. Len(cont.value.rows) : cont.value.rows[k].partido = pty}

\* C5: in the returned table the count of a party code equals the number of
\* author references, across all processed bills, that are parliamentary,
\* carry a legislator identifier and resolve to that non-empty code: a
\* legislator who authors k processed bills adds k.  No other code has a
\* row, and the partidos tallied number as many as those references.
TallyCountsReferences ==
  apc = "done" /\ netLog # <<>> =>
    /\ \A pty \in {PT, PSDB} :
         IF ReferencesTo(pty) = {} THEN RowsOf(pty) = {}
         ELSE /\ Cardinality(RowsOf(pty)) = 1
              /\ \A k \in RowsOf(pty) :
                   cont.value.rows[k].autores = Cardinality(ReferencesTo(pty))
    /\ \A k \in 1 .. Len(cont.value.rows) :
         cont.value.rows[k].partido \in {PT, PSDB}
    /\ Len(partidos) = Cardinality(ReferencesTo(PT)) + Cardinality(ReferencesTo(PSDB))

\* bills 101 and 102: 101 has one parliamentary author, legislator 55 of
\* party "pt"; 102 has one author that is not parliamentary; the table is
\* {"PT": 1}
TallyWitness ==
  /\ apc = "done"
  /\ processed = <<FirstBill, FirstBill + 1>>
  /\ ListedAuthors(FirstBill) = <<ParlTop(Dep55)>>
  /\ ListedAuthors(FirstBill + 1) = <<Other(Dep55)>>
  /\ apiPartido[Dep55] = Sigla(<<"p", "t">>)
  /\ cont.returned
  /\ cont.value.rows = <<[partido |-> PT, autores |-> 1]>>

(***************************************************************************)
(* Claims about the dashboard (Spec)                                       *)
(***************************************************************************)
\* C6: a call of the collector with the same (start year, end year) as a
\* call computed less than 3600 seconds before returns the result of that
\* call and issues no request; once 3600 seconds have passed since that call
\* computed its result, the call issues requests again.
CacheWithinTTL ==
  dpc = "check" /\ prev.known =>
    /\ clock - prev.at < TTL => df = RetDf(prev.value) /\ Requests = 0
    /\ clock - prev.at >= TTL => Requests > 0

\* a result computed, read again TTL - 1 seconds later without a request
CacheWitness ==
  /\ dpc = "check"
  /\ prev.known
  /\ clock - prev.at = TTL - 1
  /\ ~IsEmpty(prev.value)
  /\ df = RetDf(prev.value)
  /\ Requests = 0

\* C10: when the collection is empty the driver shows an error and halts
\* the run: the aggregator is not invoked and nothing further is rendered.
\* The aggregator is invoked only in a run whose collection is not empty.
HaltOnEmpty ==
  /\ dpc = "halted" =>
       /\ df.returned
       /\ IsEmpty(df.value)
       /\ errorShown
       /\ ~aggCalled
       /\ apc = "idle"
  /\ df.returned /\ IsEmpty(df.value) => dpc \in {"collecting", "check", "halted"}
  /\ aggCalled \/ apc # "idle" =>
       /\ df.returned
       /\ ~IsEmpty(df.value)
       /\ ~errorShown
       /\ dpc \in {"aggregating", "rendered"}

\* a run halted on an empty collection after a run that rendered
HaltWitness ==
  /\ dpc = "halted"
  /\ runs = 2
  /\ errorShown
  /\ ~aggCalled
  /\ cacheCont # {}

(***************************************************************************)
(* Claims about partido_do_deputado and the table (SpecAgg)                *)
(***************************************************************************)
SmallLetters ==
  {"a", "b", "c", "d", "e", "f", "g", "h", "i", "j", "k", "l", "m",
   "n", "o", "p", "q", "r", "s", "t", "u", "v", "w", "x", "y", "z"}

NoSmallLetter(str) == \A i \in 1 .. Len(str) : str[i] \notin SmallLetters

\* C11: what partido_do_deputado returned for a legislator (the cache keeps
\* it) is a string without lower-case letters: the party code of the nested
\* ultimoStatus in upper case, and "" when the fetch failed or a level is
\* missing; every code in the tally is upper case and not empty.
PartyIsUpperCase ==
  /\ \A e \in cachePart :
       /\ NoSmallLetter(e.value)
       /\ e.value = ResolvedParty(e.args)
  /\ \A k \in 1 .. Len(partidos) :
       /\ partidos[k] # <<>>
       /\ NoSmallLetter(partidos[k])

\* the mixed-case code "PsDB" came back as "PSDB" and was tallied, and the
\* other legislator, whose answer lacks ultimoStatus, gave ""
UpperCaseWitness ==
  /\ apc = "done"
  /\ apiPartido[Dep55] = Sigla(<<"P", "s", "D", "B">>)
  /\ apiPartido[Dep56] = [dados |-> EmptyObj]
  /\ \E e \in cachePart : e.args = Dep55 /\ e.value = PSDB
  /\ \E e \in cachePart : e.args = Dep56 /\ e.value = <<>>
  /\ partidos = <<PSDB>>

\* the party codes collected by the call
Collected == {partidos[k] : k \in 1 .. Len(partidos)}

\* C12: the returned table has one row per distinct party code collected,
\* its rows are ordered by count, non-increasing, and when no party code was
\* collected it is an empty table with the columns partido and autores, not
\* absent.
TableShape ==
  apc = "done" =>
    /\ cont.returned
    /\ cont.value # None
    /\ cont.value.columns = <<"partido", "autores">>
    /\ Len(cont.value.rows) = Cardinality(Collected)
    /\ \A pty \in Collected :
         \E k \in 1 .. Len(cont.value.rows) : cont.value.rows[k].partido = pty
    /\ \A k \in 1 .. Len(cont.value.rows) :
         /\ DOMAIN cont.value.rows[k] = {"partido", "autores"}
         /\ cont.value.rows[k].autores > 0
         /\ k > 1 => cont.value.rows[k - 1].autores >= cont.value.rows[k].autores
    /\ partidos = <<>> => cont.value.rows = <<>>

\* PSDB was collected first and once, PT three times: PT is the first row
TableWitness ==
  /\ apc = "done"
  /\ partidos = <<PSDB, PT, PT, PT>>
  /\ cont.value.rows = <<[partido |-> PT, autores |-> 3],
                         [partido |-> PSDB, autores |-> 1]>>

(***************************************************************************)
(* More claims about buscar_pls_periodo (SpecCollect)                      *)
(***************************************************************************)
\* a page answer names a "next" link; the records it carries
NamesNext(js) ==
  /\ "links" \in DOMAIN js
  /\ \E k \in 1 .. Len(js.links) : js.links[k] = "next"
Carries(js) == IF "dados" \in DOMAIN js THEN Len(js.dados) ELSE 0

\* C13: after a successful page response the next page of the same year is
\* requested if and only if the response had a "next" link and at least one
\* record; a response with a "next" link and no record, or with records and
\* no "next" link, ends the paging of the year, and the next year starts at
\* its page 1.
ContinuationRule ==
  LET F == Fetches(reqLog)
  IN  /\ \A i \in 1 .. Len(F) :
           F[i].js # None =>
             /\ (i < Len(F) \/ cpc = "while")
                  <=> (NamesNext(F[i].js) /\ Carries(F[i].js) > 0)
             /\ i < Len(F) =>
                  (F[i + 1].ano = F[i].ano /\ F[i + 1].pagina = F[i].pagina + 1)
             /\ (i = Len(F) /\ cpc = "while") => pagina = F[i].pagina + 1
      /\ F # <<>> => (F[1].pagina = 1 /\ F[1].ano = ano_ini + Len(yearsDone))
      /\ F = <<>> /\ cpc = "while" => pagina = 1

\* page 1 had a "next" link and a record, page 2 a "next" link and no
\* record: the paging of the year is over and another year is to come
ContinuationWitness ==
  LET F == Fetches(reqLog)
  IN  /\ cpc = "for"
      /\ ano < ano_fim
      /\ Len(F) = 2
      /\ F[2].js # None
      /\ NamesNext(F[2].js)
      /\ Carries(F[2].js) = 0

(***************************************************************************)
(* Claims about the pauses of contagem_por_partido (SpecAgg)               *)
(***************************************************************************)
\* C14 as stated: each pause occurs when the number of bills whose authors
\* have already been fetched is a positive multiple of 25, and exactly
\* floor(n / 25) pauses occur when n bills are processed.
PauseAfterEvery25 ==
  /\ \A k \in 1 .. Len(pausesAt) :
       pausesAt[k] > 0 /\ pausesAt[k] % 25 = 0
  /\ apc = "done" => Len(pausesAt) = Len(processed) \div 25

\* C14 as amended: the k-th pause occurs before the authors of bill 25 k are
\* fetched, when 25 k - 1 bills have been fetched, and exactly floor(n / 25)
\* pauses occur when n bills are processed.
PauseBeforeEvery25th ==
  /\ \A k \in 1 .. Len(pausesAt) : pausesAt[k] = 25 * k - 1
  /\ Len(pausesAt) = Len(processed) \div 25
  /\ apc = "done" => Len(pausesAt) = ToProcess \div 25

\* 800 bills processed with 32 pauses, the last one when 799 were fetched
PauseWitness ==
  /\ apc = "done"
  /\ Len(processed) = SampleLimit
  /\ Len(pausesAt) = 32
  /\ pausesAt[1] = 24
  /\ pausesAt[32] = 799

(***************************************************************************)
(* Claims about the pauses of buscar_pls_periodo (SpecCollect)             *)
(***************************************************************************)
\* C15: between two consecutive page fetches of a year exactly one pause
\* occurs, and no pause occurs after the last page of a year, after a failed
\* page fetch, or between the last page of a year and page 1 of the next.
CollectorPacing ==
  /\ \A i \in 1 .. Len(reqLog) :
       /\ (reqLog[i].op = "fetch" /\ i < Len(reqLog)) =>
            /\ reqLog[i + 1].op = "sleep"
            /\ i + 2 <= Len(reqLog) \/ cpc = "while"
       /\ reqLog[i].op = "sleep" =>
            /\ i > 1
            /\ reqLog[i - 1].op = "fetch"
            /\ reqLog[i - 1].js # None
            /\ i < Len(reqLog) =>
                 /\ reqLog[i + 1].op = "fetch"
                 /\ reqLog[i + 1].ano = reqLog[i - 1].ano
       /\ (reqLog[i].op = "fetch" /\ reqLog[i].js = None) => i = Len(reqLog)
  /\ (cpc = "for" /\ reqLog # <<>>) => reqLog[Len(reqLog)].op = "fetch"
  /\ \A i \in 1 .. Len(yearsDone) :
       yearsDone[i].pauses = yearsDone[i].requests - 1

\* two years paged: one pause between the two pages of the first year, whose
\* second fetch failed, and none before page 1 of the second year
PacingWitness ==
  /\ cpc = "for"
  /\ Len(yearsDone) = 1
  /\ yearsDone[1].requests = 2
  /\ yearsDone[1].pauses = 1
  /\ yearsDone[1].failed
  /\ Len(reqLog) = 1
  /\ reqLog[1].op = "fetch"
  /\ reqLog[1].pagina = 1

(***************************************************************************)
(* Claims about the caches of the resolvers (Spec, SpecOutage)             *)
(***************************************************************************)
\* the fetches of this run for an identifier
FetchesOf(fn, id) ==
  {k \in 1 .. Len(netLog) : netLog[k].fn = fn /\ netLog[k].id = id}

\* an earlier run fetched it less than 3600 seconds ago
FetchedBefore(fn, id) ==
  \E h \in resolved :
    h.fn = fn /\ h.id = id /\ h.at < clock /\ clock - h.at < 3600

\* the same, and the fetch failed
FailedBefore(fn, id) ==
  \E h \in resolved :
    h.fn = fn /\ h.id = id /\ h.at < clock /\ clock - h.at < 3600 /\ h.failed

\* C16: within the cache window partido_do_deputado fetches a legislator at
\* most once, however many bills and author references of one or several
\* aggregations name the legislator; the later resolutions reuse the party
\* code (every bill of this dashboard has one author, of party "pt").
OneFetchPerLegislator ==
  /\ \A d \in Deps :
       /\ Cardinality(FetchesOf("deputados", d)) <= 1
       /\ FetchedBefore("deputados", d) => FetchesOf("deputados", d) = {}
  /\ (apc = "done" /\ processed # <<>>) =>
       /\ Len(partidos) = Len(processed)
       /\ \A k \in 1 .. Len(partidos) : partidos[k] = PT

\* a second aggregation, of two bills, 3599 seconds after the first fetched
\* legislator 55: both bills are tallied and the legislator is not fetched
LegislatorCacheWitness ==
  /\ runs = 2
  /\ apc = "done"
  /\ Len(processed) = 2
  /\ FetchedBefore("deputados", Dep55)
  /\ FetchesOf("deputados", Dep55) = {}
  /\ partidos = <<PT, PT>>

\* C20: the caches keep a result whether or not the fetch behind it
\* succeeded.  A call of buscar_pls_periodo with the arguments of a call
\* computed less than 3600 seconds before returns that result, partial or
\* empty as it may be, without a request; a bill or a legislator fetched
\* less than 3600 seconds before is not fetched again, and when that fetch
\* had failed the default it gave ([] or "") is what the aggregation gets,
\* even if the endpoint has recovered.
FailuresMemoised ==
  /\ (dpc = "check" /\ prev.known /\ clock - prev.at < 3600) =>
       (df = RetDf(prev.value) /\ Requests = 0)
  /\ \A h \in resolved :
       (h.at < clock /\ clock - h.at < 3600) => FetchesOf(h.fn, h.id) = {}
  /\ (apc = "done" /\ processed # <<>>) =>
       /\ FailedBefore("deputados", Dep55) => partidos = <<>>
       /\ (\A k \in 1 .. Len(processed) : FailedBefore("autores", processed[k]))
            => (partidos = <<>> /\ netLog = <<>>)

\* 3599 seconds after a run in which a page fetch and the fetch of
\* legislator 55 failed, with the deputies endpoint healthy again: the
\* partial bill set comes from the cache and the party of the bill's author
\* is still ""
MemoWitness ==
  /\ runs = 2
  /\ clock = 3599
  /\ prev.known
  /\ prev.degraded
  /\ df = RetDf(prev.value)
  /\ Requests = 0
  /\ apc = "done"
  /\ processed # <<>>
  /\ apiPartido = HealthyPartido
  /\ FailedBefore("deputados", Dep55)
  /\ partidos = <<>>
  /\ netLog = <<>>

(***************************************************************************)
(* Claims about the legislator of an author reference (SpecAgg)            *)
(***************************************************************************)
\* the legislators the parliamentary references of the processed bills
\* carry: idDeputado when the reference has one, else autor.id
Named ==
  { Carried(ListedAuthors(processed[ref[1]])[ref[2]]) :
      ref \in { r \in { <<i, k>> : i \in 1 .. Len(processed), k \in 1 .. 2 } :
                  /\ r[2] <= Len(ListedAuthors(processed[r[1]]))
                  /\ Parliamentary(ListedAuthors(processed[r[1]])[r[2]]) } } \ {0}

\* C17: for a parliamentary author reference the legislator is the one of
\* the top-level idDeputado when the reference has it, else the one of the
\* nested autor.id; the party is looked up exactly for the legislators so
\* found, and a reference with neither looks nothing up and adds nothing to
\* the tally.  (The call starts with empty caches: a lookup is a fetch.)
DualLocationLookup ==
  apc = "done" =>
    /\ {d \in Deps : FetchesOf("deputados", d) # {}} = Named
    /\ Named = {} => partidos = <<>>

\* bill 101: idDeputado 55, and idDeputado 55 beside autor.id 56; bill 102:
\* no idDeputado and autor.id 56, and a reference with neither.  Legislator
\* 55 is looked up for the first bill only, 56 for the second.
DualLocationWitness ==
  /\ apc = "done"
  /\ processed = <<FirstBill, FirstBill + 1>>
  /\ ListedAuthors(FirstBill) = <<ParlTop(Dep55), ParlBoth(Dep55, Dep56)>>
  /\ ListedAuthors(FirstBill + 1) = <<ParlZeroTop(Dep56), ParlNoId>>
  /\ netLog = <<NetEvent("autores", FirstBill), NetEvent("deputados", Dep55),
                NetEvent("autores", FirstBill + 1), NetEvent("deputados", Dep56)>>

(***************************************************************************)
(* Claims about the variable resp of safe_get (SpecFetch)                  *)
(***************************************************************************)
\* the first session request of the call raised: resp was never assigned
FirstRaised == trace # <<>> /\ trace[1].out.raises # "none"

\* C18 as stated: when the very first request raises before resp is
\* assigned, the HTTPError branch runs and reads resp unassigned.
UnassignedRespRead ==
  (FirstRaised /\ CallOver) =>
    (spc = "propagated" /\ exc = "UnboundLocalError")

\* C18 as amended: the HTTPError branch, the only reader of resp outside the
\* try block, runs only after resp was assigned; when the very first request
\* raises, the generic branch warns with the exception and returns None, and
\* resp, still unassigned, is never read.
RespAssignedWhenRead ==
  /\ spc = "exceptHTTP" => resp.bound
  /\ exc # "UnboundLocalError"
  /\ FirstRaised =>
       /\ ~resp.bound
       /\ spc \in {"exceptException", "returned"}
       /\ spc = "returned" =>
            /\ ret.returned
            /\ ret.value = None
            /\ Last(trace) = WarnEvent(trace[1].out.raises)

\* the first request raised ConnectionError and the call returned None
RespWitness ==
  /\ spc = "returned"
  /\ FirstRaised
  /\ trace[1].out.raises = "ConnectionError"
  /\ ~resp.bound
  /\ ret.value = None

(***************************************************************************)
(* Claims about the termination of buscar_pls_periodo (SpecCollectFair)    *)
(***************************************************************************)
\* every page fetched so far in the year being paged had a "next" link and
\* a record
FullSoFar ==
  LET F == Fetches(reqLog)
  IN  /\ F # <<>>
      /\ \A i \in 1 .. Len(F) :
           F[i].js # None /\ NamesNext(F[i].js) /\ Carries(F[i].js) > 0

\* C19: the call returns for every range of years when in each year the API
\* comes to answer with a failed fetch, a page without a record or a page
\* without a "next" link (here: at page apiPages at the latest).  The code
\* itself puts no cap on the page number: as long as every page of a year
\* has records and a "next" link the paging of that year goes on with the
\* next page number and no later year is requested.
CollectTerminates ==
  /\ <>(cpc = "done")
  /\ [](FullSoFar =>
          /\ cpc = "while"
          /\ pagina = Len(Fetches(reqLog)) + 1
          /\ ano = ano_ini + Len(yearsDone))

\* the call returned after paging two years, one of them up to the last
\* page the API has
TerminationWitness ==
  /\ cpc = "done"
  /\ df.returned
  /\ Len(yearsDone) = 2
  /\ yearsDone[1].requests = apiPages
  /\ yearsDone[1].records = apiPages * apiItems

=============================================================================
